---- MODULE Spec2Model ----
(***************************************************************************)
(* Model of the air-quality fetcher (data/fetch_official_db.py) and of the *)
(* dashboard's data preparation (src/app.py).                              *)
(*                                                                         *)
(* A data frame is a record [cols, n, err]: cols is the sequence of its    *)
(* columns, each [name, dtype, cells] with one cell per row, n the number  *)
(* of rows, err the mark of a call that raised.  Column labels are         *)
(* sequences of characters, so that lowercasing and substring matching are *)
(* computed; labels may repeat, as pandas allows.  A cell is [k, v]: k its *)
(* kind, v the datum it carries through conversions.                       *)
(***************************************************************************)
EXTENDS Integers, Sequences, FiniteSets, TLC

VARIABLES
    prog,       \* which program this behaviour runs
    pc,         \* position in that program
    raw,        \* normalizer: the input frame
    fDf,        \* normalizer: the fetcher's df once every role is assigned (line 149)
    dDf,        \* normalizer: the dashboard's df once every role is assigned (line 82)
    fOut,       \* normalizer: result of the fetcher's normalize_measurements
    dOut,       \* normalizer: result of the dashboard's normalize_measurements
    fail2,      \* load_and_prepare: how the daily dataset failed, or "no"
    fail1,      \* load_and_prepare: how the historical dataset failed, or "no"
    meas2,      \* load_and_prepare: meas2
    meas1,      \* load_and_prepare: meas1
    measures,   \* load_and_prepare: measures
    stations,   \* load_and_prepare: stations
    joined,     \* load_and_prepare: merged, before the final cleanup
    ret,        \* load_and_prepare: merged, as returned
    jfile,      \* read_json_flexible: what the file holds
    jenv,       \* read_json_flexible: which parsing steps succeed on that file
    tried,      \* read_json_flexible: the strategies tried so far, in order
    jres,       \* read_json_flexible: the strategy whose frame was returned
    disk,       \* build_db: temporary files, the two CSVs and the database
    disk0,      \* build_db: the disk when build_db was called
    created,    \* build_db: the temporary files download_to_temp created
    tmp_files,  \* build_db: tmp_files
    exc,        \* build_db: an exception is propagating
    loc         \* build_db: df1, df2, stations_raw, m1, m2, all_measures, stations_norm

normVars == <<raw, fDf, dDf, fOut, dOut>>
loadVars == <<fail2, fail1, meas2, meas1, measures, stations, joined, ret>>
readVars == <<jfile, jenv, tried, jres>>
buildVars == <<disk, disk0, created, tmp_files, exc, loc>>
vars == <<prog, pc, normVars, loadVars, readVars, buildVars>>

(***************************************************************************)
(* Bounds                                                                  *)
(***************************************************************************)
\* columns of a frame given to the normalizers
MaxCols == 2
\* rows of each measurement dataset read by load_and_prepare
MaxLoadRows == 2
\* rows of the station table read by load_and_prepare
MaxStations == 2

(***************************************************************************)
(* Column labels                                                           *)
(***************************************************************************)
N_date == <<"d","a","t","e">>
N_datetime == <<"d","a","t","e","t","i","m","e">>
N_station_id == <<"s","t","a","t","i","o","n","_","i","d">>
N_station_name == <<"s","t","a","t","i","o","n","_","n","a","m","e">>
N_lat == <<"l","a","t">>
N_lon == <<"l","o","n">>
N_station_type == <<"s","t","a","t","i","o","n","_","t","y","p","e">>
N_pollutant == <<"p","o","l","l","u","t","a","n","t">>
N_unit == <<"u","n","i","t">>
N_value == <<"v","a","l","u","e">>
N_qc_flag == <<"q","c","_","f","l","a","g">>
N_year == <<"y","e","a","r">>
N_month == <<"m","o","n","t","h">>
N_day == <<"d","a","y">>
N_data == <<"d","a","t","a">>
N_giorno == <<"g","i","o","r","n","o">>
N_valore == <<"v","a","l","o","r","e">>
N_concentrazione == <<"c","o","n","c","e","n","t","r","a","z","i","o","n","e">>
N_concen == <<"c","o","n","c","e","n">>
N_concentration == <<"c","o","n","c","e","n","t","r","a","t","i","o","n">>
N_concentration_mean == <<"c","o","n","c","e","n","t","r","a","t","i","o","n","_","m","e","a","n">>
N_val == <<"v","a","l">>
N_inquin == <<"i","n","q","u","i","n">>
N_param == <<"p","a","r","a","m">>
N_pollut == <<"p","o","l","l","u","t">>
N_parameter == <<"p","a","r","a","m","e","t","e","r">>
N_nome == <<"n","o","m","e">>
N_name == <<"n","a","m","e">>
N_indicator == <<"i","n","d","i","c","a","t","o","r">>
N_staz == <<"s","t","a","z">>
N_station == <<"s","t","a","t","i","o","n">>
N_stazione == <<"s","t","a","z","i","o","n","e">>
N_id == <<"i","d">>
N_cod == <<"c","o","d">>
N_description == <<"d","e","s","c","r","i","p","t","i","o","n">>
N_lat_y_4326 == <<"l","a","t","_","y","_","4","3","2","6">>
N_latitude == <<"l","a","t","i","t","u","d","e">>
N_long_x_4326 == <<"l","o","n","g","_","x","_","4","3","2","6">>
N_longitude == <<"l","o","n","g","i","t","u","d","e">>
N_long == <<"l","o","n","g">>
N_unita == <<"u","n","i","t","a">>
N_uom == <<"u","o","m">>
N_tipo == <<"t","i","p","o">>
N_type == <<"t","y","p","e">>
N_inquinanti_aria == <<"i","n","q","u","i","n","a","n","t","i","_","a","r","i","a">>
N_inquinanti_aria_tipologia == <<"i","n","q","u","i","n","a","n","t","i","_","a","r","i","a","_","t","i","p","o","l","o","g","i","a">>
N_nomecentralina == <<"n","o","m","e","c","e","n","t","r","a","l","i","n","a">>

\* Labels as the downloaded datasets may spell them (before lowercasing).
R_Data == <<"D","a","t","a">>
R_QC_FLAG == <<"Q","C","_","F","L","A","G">>
R_parametro == <<"p","a","r","a","m","e","t","r","o">>
R_codice == <<"c","o","d","i","c","e">>
N_cod_inquinante == <<"c", "o", "d", "_", "i", "n", "q", "u", "i", "n", "a", "n", "t", "e">>
N_tipo_data == <<"t", "i", "p", "o", "_", "d", "a", "t", "a">>
N_nome_stazione == <<"n", "o", "m", "e", "_", "s", "t", "a", "z", "i", "o", "n", "e">>
N_tipo_stazione == <<"t", "i", "p", "o", "_", "s", "t", "a", "z", "i", "o", "n", "e">>
R_Nome == <<"N", "o", "m", "e">>
N_id_arpa == <<"i","d","_","a","r","p","a">>
N_inizio_operativita == <<"i","n","i","z","i","o","_","o","p","e","r","a","t","i","v","i","t","a">>
N_fine_operativita == <<"f","i","n","e","_","o","p","e","r","a","t","i","v","i","t","a">>
N_inquinanti == <<"i","n","q","u","i","n","a","n","t","i">>
N_location == <<"l","o","c","a","t","i","o","n">>

\* the lowercase letter of every uppercase letter
LowerOf ==
    [A |-> "a", B |-> "b", C |-> "c", D |-> "d", E |-> "e", F |-> "f", G |-> "g", H |-> "h", I |-> "i",
     J |-> "j", K |-> "k", L |-> "l", M |-> "m", N |-> "n", O |-> "o", P |-> "p", Q |-> "q", R |-> "r",
     S |-> "s", T |-> "t", U |-> "u", V |-> "v", W |-> "w", X |-> "x", Y |-> "y", Z |-> "z"]

\* str.lower() on one character
LowerChar(ch) == IF ch \in DOMAIN LowerOf THEN LowerOf[ch] ELSE ch

RECURSIVE LowerName(_)
\* c.lower()
LowerName(c) == IF c = <<>> THEN <<>> ELSE <<LowerChar(Head(c))>> \o LowerName(Tail(c))

\* the Python test `kw in c` on strings
Contains(kw, c) ==
    \E i \in 0..(Len(c) - Len(kw)) : SubSeq(c, i + 1, i + Len(kw)) = kw

(***************************************************************************)
(* Cells and their conversions                                             *)
(***************************************************************************)
NA == [k |-> "na", v |-> 0]
Num(v) == [k |-> "num", v |-> v]
Txt(v) == [k |-> "txt", v |-> v]

IsNA(c) == c.k = "na"

\* the literal default unit "µg/m3", and the literal default qc_flag 0
UnitDefaultCell == [k |-> "txt", v |-> 0]
QcDefaultCell == [k |-> "num", v |-> 0]

\* Series.astype(str): a missing cell becomes the text "nan"/"None"/"NaT"
AsStr(c) ==
    CASE c.k = "na" -> [k |-> "nanstr", v |-> 0]
      [] c.k = "num" -> [k |-> "nstr", v |-> c.v]
      [] c.k \in {"dt", "date"} -> [k |-> "dstr", v |-> c.v]
      [] OTHER -> c

\* pd.to_numeric(..., errors="coerce")
ToNumeric(c) ==
    CASE c.k = "num" -> c
      [] c.k = "nstr" -> [k |-> "num", v |-> c.v]
      [] OTHER -> NA

\* pd.to_datetime(..., errors="coerce")
ToDatetime(c) ==
    CASE c.k \in {"num", "nstr", "dstr", "date", "dt"} -> [k |-> "dt", v |-> c.v]
      [] OTHER -> NA

\* Series.dt.date
DtDate(c) == IF c.k = "dt" THEN [k |-> "date", v |-> c.v] ELSE NA

\* Series.dt.year
DtYear(c) == IF c.k = "dt" THEN [k |-> "num", v |-> c.v] ELSE NA

(***************************************************************************)
(* Frames                                                                  *)
(***************************************************************************)
Raised == [cols |-> <<>>, n |-> 0, err |-> TRUE]

\* pd.DataFrame()
EmptyFrame == [cols |-> <<>>, n |-> 0, err |-> FALSE]

Names(df) == [j \in 1..Len(df.cols) |-> df.cols[j].name]

\* the positions of the columns labelled c
Idx(df, c) == {j \in 1..Len(df.cols) : df.cols[j].name = c}

Has(df, c) == Idx(df, c) # {}

\* a set of positions as an increasing sequence
Ordered(S) ==
    [i \in 1..Cardinality(S) |-> CHOOSE j \in S : Cardinality({x \in S : x < j}) = i - 1]

\* df[c]: one series when the label is unique, a frame of every column
\* carrying the label otherwise; here the sequence of [dtype, cells]
GetItem(df, c) ==
    LET pos == Ordered(Idx(df, c))
    IN  [i \in 1..Len(pos) |-> [dtype |-> df.cols[pos[i]].dtype, cells |-> df.cols[pos[i]].cells]]

\* a scalar broadcast to a column
Broadcast(df, dtype, cell) == <<[dtype |-> dtype, cells |-> [r \in 1..df.n |-> cell]]>>

\* df[c] = val.  A series sets every column carrying the label, or is
\* appended as a new last column; a frame must have as many columns as the
\* label has, and cannot be set to a new label.
SetItem(df, c, val) ==
    IF df.err THEN df
    ELSE LET pos == Ordered(Idx(df, c))
         IN  IF Len(pos) = 0
             THEN IF Len(val) = 1
                  THEN [df EXCEPT !.cols = Append(@, [name |-> c, dtype |-> val[1].dtype, cells |-> val[1].cells])]
                  ELSE Raised
             ELSE IF Len(val) = 1
                  THEN [df EXCEPT !.cols = [j \in 1..Len(@) |->
                            IF @[j].name = c
                            THEN [name |-> c, dtype |-> val[1].dtype, cells |-> val[1].cells]
                            ELSE @[j]]]
                  ELSE IF Len(val) = Len(pos)
                       THEN [df EXCEPT !.cols = [j \in 1..Len(@) |->
                                IF @[j].name = c
                                THEN LET i == CHOOSE i \in 1..Len(pos) : pos[i] = j
                                     IN  [name |-> c, dtype |-> val[i].dtype, cells |-> val[i].cells]
                                ELSE @[j]]]
                       ELSE Raised

\* elementwise conversion of a series or frame, giving the dtype `dtype`
MapVal(Op(_), dtype, val) ==
    [i \in 1..Len(val) |-> [dtype |-> dtype, cells |-> [r \in 1..Len(val[i].cells) |-> Op(val[i].cells[r])]]]

\* df.columns = [c.lower() for c in df.columns]
LowerColumns(df) ==
    [df EXCEPT !.cols = [j \in 1..Len(df.cols) |->
        [name |-> LowerName(df.cols[j].name), dtype |-> df.cols[j].dtype, cells |-> df.cols[j].cells]]]

\* [c for c in df.columns if P(c)]: the labels, in column order
Candidates(P(_), df) == SelectSeq(Names(df), P)

\* the rows kept by dropna(subset=labels, how="any")
KeptRows(df, labels) ==
    {r \in 1..df.n : \A j \in 1..Len(df.cols) :
        df.cols[j].name \in labels => ~IsNA(df.cols[j].cells[r])}

TakeRows(df, rows) ==
    LET ord == Ordered(rows)
    IN  [cols |-> [j \in 1..Len(df.cols) |->
                [name |-> df.cols[j].name, dtype |-> df.cols[j].dtype,
                 cells |-> [i \in 1..Len(ord) |-> df.cols[j].cells[ord[i]]]]],
         n |-> Len(ord), err |-> df.err]

\* df.dropna(subset=[...], how="any")
DropNA(df, labels) ==
    IF df.err THEN df ELSE TakeRows(df, KeptRows(df, labels))

RECURSIVE SelectColumns(_, _)
\* df[labels]: for each label in turn, every column carrying it
SelectColumns(df, labels) ==
    IF labels = <<>> THEN <<>>
    ELSE [i \in 1..Cardinality(Idx(df, Head(labels))) |->
            df.cols[Ordered(Idx(df, Head(labels)))[i]]]
         \o SelectColumns(df, Tail(labels))

(***************************************************************************)
(* Fetcher: normalize_measurements (data/fetch_official_db.py)             *)
(***************************************************************************)
FIsDate(c) ==
    Contains(N_date, c) \/ Contains(N_data, c) \/ Contains(N_giorno, c) \/ Contains(N_day, c)

FIsValue(c) ==
    \/ c \in {N_value, N_valore, N_concentrazione, N_concen, N_concentration, N_concentration_mean}
    \/ Contains(N_val, c)

FIsPollutant(c) ==
    \/ Contains(N_inquin, c) \/ Contains(N_param, c) \/ Contains(N_pollut, c)
    \/ Contains(N_parameter, c)
    \/ c \in {N_nome, N_name, N_indicator}

FIsStation(c) ==
    \/ Contains(N_staz, c) \/ Contains(N_station, c) \/ Contains(N_stazione, c)
    \/ c = N_id
    \/ Contains(N_cod, c)

FIsName(c) == Contains(N_nome, c) \/ Contains(N_name, c) \/ Contains(N_description, c)

FIsLat(c) == c \in {N_lat, N_lat_y_4326, N_latitude}

FIsLon(c) == c \in {N_lon, N_long_x_4326, N_longitude, N_long}

FIsUnit(c) == Contains(N_unit, c) \/ Contains(N_unita, c) \/ Contains(N_uom, c)

FIsType(c) == Contains(N_tipo, c) \/ Contains(N_type, c) \/ Contains(N_station_type, c)

\* candidates[0]
\* the last candidate instead of the first
LastOf(candidates) == candidates[Len(candidates)]
FirstOf(candidates) == candidates[1]

\* pd.to_datetime(df[["year","month","day"]], errors="coerce")
AssembleDate(df) ==
    LET y == GetItem(df, N_year)
        m == GetItem(df, N_month)
        d == GetItem(df, N_day)
    IN  IF Len(y) # 1 \/ Len(m) # 1 \/ Len(d) # 1 THEN <<>>
        ELSE <<[dtype |-> "dt", cells |-> [r \in 1..df.n |->
                  IF \/ IsNA(ToNumeric(y[1].cells[r]))
                     \/ IsNA(ToNumeric(m[1].cells[r]))
                     \/ IsNA(ToNumeric(d[1].cells[r]))
                  THEN NA
                  ELSE [k |-> "dt", v |-> y[1].cells[r].v]]]>>

\* df["date"] = df["datetime"].dt.date  (a frame has no .dt accessor)
FSetDate(df) ==
    IF df.err THEN df
    ELSE IF Len(GetItem(df, N_datetime)) # 1 THEN Raised
    ELSE SetItem(df, N_date, MapVal(DtDate, "obj", GetItem(df, N_datetime)))

\* the date / datetime block
FDateStep(df) ==
    IF df.err THEN df
    ELSE LET date_candidates == Candidates(FIsDate, df)
         IN  IF date_candidates # <<>>
             THEN LET src == GetItem(df, FirstOf(date_candidates))
                  IN  IF Len(src) # 1 THEN Raised
                      ELSE FSetDate(SetItem(df, N_datetime, MapVal(ToDatetime, "dt", src)))
             ELSE IF \A x \in {N_year, N_month, N_day} : Has(df, x)
                  THEN IF AssembleDate(df) = <<>> THEN Raised
                       ELSE FSetDate(SetItem(df, N_datetime, AssembleDate(df)))
                  ELSE SetItem(SetItem(df, N_datetime, Broadcast(df, "dt", NA)),
                               N_date, Broadcast(df, "obj", NA))

\* df.select_dtypes(["number"]).columns.tolist()
NumericCols(df) ==
    LET pos == Ordered({j \in 1..Len(df.cols) : df.cols[j].dtype = "num"})
    IN  [i \in 1..Len(pos) |-> df.cols[pos[i]].name]

\* the value block
FValueStep(df) ==
    IF df.err THEN df
    ELSE LET value_candidates == Candidates(FIsValue, df)
         IN  IF value_candidates # <<>>
             THEN LET src == GetItem(df, FirstOf(value_candidates))
                  IN  IF Len(src) # 1 THEN Raised
                      ELSE SetItem(df, N_value, MapVal(ToNumeric, "num", src))
             ELSE IF NumericCols(df) # <<>>
                  THEN SetItem(df, N_value, GetItem(df, NumericCols(df)[1]))
                  ELSE SetItem(df, N_value, Broadcast(df, "obj", NA))

\* the pollutant block
FPollutantStep(df) ==
    IF df.err THEN df
    ELSE LET pol_candidates == Candidates(FIsPollutant, df)
         IN  IF pol_candidates # <<>>
             THEN SetItem(df, N_pollutant, MapVal(AsStr, "obj", GetItem(df, FirstOf(pol_candidates))))
             ELSE SetItem(df, N_pollutant, Broadcast(df, "obj", NA))

\* the station id block
FStationStep(df) ==
    IF df.err THEN df
    ELSE LET st_id_candidates == Candidates(FIsStation, df)
         IN  IF st_id_candidates # <<>>
             THEN SetItem(df, N_station_id, MapVal(AsStr, "obj", GetItem(df, FirstOf(st_id_candidates))))
             ELSE SetItem(df, N_station_id, Broadcast(df, "obj", NA))

\* the station name block
FNameStep(df) ==
    IF df.err THEN df
    ELSE LET name_candidates == Candidates(FIsName, df)
         IN  IF name_candidates # <<>>
             THEN SetItem(df, N_station_name, MapVal(AsStr, "obj", GetItem(df, FirstOf(name_candidates))))
             ELSE IF Has(df, N_station_id)
                  THEN SetItem(df, N_station_name, GetItem(df, N_station_id))
                  ELSE SetItem(df, N_station_name, Broadcast(df, "obj", NA))

\* one of the lat / lon assignments: next((c for c in df.columns if ...), None)
FCoordStep(df, IsCoord(_), target) ==
    IF df.err THEN df
    ELSE LET found == Candidates(IsCoord, df)
         IN  IF found # <<>>
             THEN LET src == GetItem(df, FirstOf(found))
                  IN  IF Len(src) # 1 THEN Raised
                      ELSE SetItem(df, target, MapVal(ToNumeric, "num", src))
             ELSE SetItem(df, target, Broadcast(df, "obj", NA))

\* the lat/lon block
FLatLonStep(df) == FCoordStep(FCoordStep(df, FIsLat, N_lat), FIsLon, N_lon)

\* df["unit"] = ...
FUnitStep(df) ==
    IF df.err THEN df
    ELSE LET unit_candidates == Candidates(FIsUnit, df)
         IN  IF unit_candidates # <<>>
             THEN SetItem(df, N_unit, MapVal(AsStr, "obj", GetItem(df, FirstOf(unit_candidates))))
             ELSE SetItem(df, N_unit, Broadcast(df, "obj", UnitDefaultCell))

\* df["qc_flag"] = df.get("qc_flag", 0)
FQcStep(df) ==
    IF df.err THEN df
    ELSE IF Has(df, N_qc_flag)
         THEN SetItem(df, N_qc_flag, GetItem(df, N_qc_flag))
         ELSE SetItem(df, N_qc_flag, Broadcast(df, "num", QcDefaultCell))

\* the station_type block
FTypeStep(df) ==
    IF df.err THEN df
    ELSE LET stype_candidates == Candidates(FIsType, df)
         IN  IF stype_candidates # <<>>
             THEN SetItem(df, N_station_type, GetItem(df, FirstOf(stype_candidates)))
             ELSE SetItem(df, N_station_type, Broadcast(df, "obj", NA))

\* the frame after every column assignment, before rows are dropped
FAssigned(df) ==
    FTypeStep(FQcStep(FUnitStep(FLatLonStep(FNameStep(FStationStep(
        FPollutantStep(FValueStep(FDateStep(LowerColumns(df))))))))))

FEssential == {N_value, N_pollutant, N_station_id}

\* df.dropna(subset=["value","pollutant","station_id"], how="any")
FDropStep(df) == DropNA(df, FEssential)

FCanonical ==
    <<N_date, N_datetime, N_station_id, N_station_name, N_lat, N_lon,
      N_station_type, N_pollutant, N_unit, N_value, N_qc_flag>>

RECURSIVE EnsureColumns(_, _)
\* for c in labels: if c not in df.columns: df[c] = pd.NA
EnsureColumns(df, labels) ==
    IF labels = <<>> THEN df
    ELSE EnsureColumns(
            IF Has(df, Head(labels)) THEN df
            ELSE SetItem(df, Head(labels), Broadcast(df, "obj", NA)),
            Tail(labels))

\* df["date"] = df["date"].astype(str)
FDateToStr(df) ==
    IF df.err THEN df
    ELSE SetItem(df, N_date, MapVal(AsStr, "obj", GetItem(df, N_date)))

\* return df[labels]
Project(df, labels) ==
    IF df.err THEN df ELSE [df EXCEPT !.cols = SelectColumns(df, labels)]

\* normalize_measurements of the fetcher
\* lines 151-162
FFinish(df) == Project(FDateToStr(EnsureColumns(FDropStep(df), FCanonical)), FCanonical)

FNormalize(df) == FFinish(FAssigned(df))

(***************************************************************************)
(* Dashboard: normalize_measurements (src/app.py)                          *)
(***************************************************************************)
DIsDate(c) == Contains(N_date, c) \/ Contains(N_data, c) \/ Contains(N_giorno, c)

DIsValue(c) == c \in {N_valore, N_value, N_concentrazione, N_inquinanti_aria}

DIsPollutant(c) == Contains(N_inquin, c) \/ Contains(N_param, c) \/ Contains(N_indicator, c)

DIsStation(c) == Contains(N_staz, c) \/ Contains(N_station, c) \/ Contains(N_cod, c)

\* the datetime assignment; date_cols was computed on the lowercased input
DDateStep(df, date_cols) ==
    IF df.err THEN df
    ELSE IF date_cols # <<>>
         THEN LET src == GetItem(df, FirstOf(date_cols))
              IN  IF Len(src) # 1 THEN Raised
                  ELSE SetItem(df, N_datetime, MapVal(ToDatetime, "dt", src))
         ELSE SetItem(df, N_datetime, Broadcast(df, "dt", NA))

\* the value assignment
DValueStep(df, val_cols) ==
    IF df.err THEN df
    ELSE IF val_cols # <<>>
         THEN LET src == GetItem(df, FirstOf(val_cols))
              IN  IF Len(src) # 1 THEN Raised
                  ELSE SetItem(df, N_value, MapVal(ToNumeric, "num", src))
         ELSE IF NumericCols(df) # <<>>
              THEN SetItem(df, N_value, GetItem(df, NumericCols(df)[1]))
              ELSE SetItem(df, N_value, Broadcast(df, "obj", NA))

\* the pollutant assignment; pd.NA has no astype, so the last default raises
DPollutantStep(df, poll_cols) ==
    IF df.err THEN df
    ELSE IF poll_cols # <<>>
         THEN SetItem(df, N_pollutant, MapVal(AsStr, "obj", GetItem(df, FirstOf(poll_cols))))
         ELSE IF Has(df, N_inquinanti_aria_tipologia)
              THEN SetItem(df, N_pollutant, MapVal(AsStr, "obj", GetItem(df, N_inquinanti_aria_tipologia)))
              ELSE IF Has(df, N_nome)
                   THEN SetItem(df, N_pollutant, MapVal(AsStr, "obj", GetItem(df, N_nome)))
                   ELSE Raised

\* the station assignment
DStationStep(df, st_cols) ==
    IF df.err THEN df
    ELSE IF st_cols # <<>>
         THEN SetItem(df, N_station_id, MapVal(AsStr, "obj", GetItem(df, FirstOf(st_cols))))
         ELSE IF Has(df, N_nomecentralina)
              THEN LET d1 == SetItem(df, N_station_name, MapVal(AsStr, "obj", GetItem(df, N_nomecentralina)))
                   IN  IF d1.err THEN d1
                       ELSE SetItem(d1, N_station_id, MapVal(AsStr, "obj", GetItem(d1, N_nomecentralina)))
              ELSE IF Has(df, N_id)
                   THEN SetItem(df, N_station_id, GetItem(df, N_id))
                   ELSE SetItem(df, N_station_id, Broadcast(df, "obj", NA))

\* df["date"] = pd.to_datetime(df["datetime"]); df["year"] = df["date"].dt.year
DYearStep(df) ==
    IF df.err THEN df
    ELSE IF Len(GetItem(df, N_datetime)) # 1 THEN Raised
    ELSE LET d1 == SetItem(df, N_date, MapVal(ToDatetime, "dt", GetItem(df, N_datetime)))
         IN  IF Len(GetItem(d1, N_date)) # 1 THEN Raised
             ELSE SetItem(d1, N_year, MapVal(DtYear, "num", GetItem(d1, N_date)))

\* the frame after every column assignment, before rows are dropped
DAssigned(df) ==
    LET low == LowerColumns(df)
        date_cols == Candidates(DIsDate, low)
        val_cols == Candidates(DIsValue, low)
        poll_cols == Candidates(DIsPollutant, low)
        st_cols == Candidates(DIsStation, low)
    IN  DYearStep(DStationStep(DPollutantStep(DValueStep(DDateStep(low, date_cols),
            val_cols), poll_cols), st_cols))

DEssential == {N_value, N_pollutant}

\* df.dropna(subset=["value","pollutant"], how="any")
DDropStep(df) == DropNA(df, DEssential)

DWanted == <<N_date, N_datetime, N_year, N_station_id, N_station_name, N_pollutant, N_value>>

\* normalize_measurements of the dashboard
\* lines 85-90
DFinish(df) == Project(EnsureColumns(DDropStep(df), DWanted), DWanted)

DNormalize(df) == DFinish(DAssigned(df))

(***************************************************************************)
(* Specification of the two normalizers over bounded input frames          *)
(***************************************************************************)
RawNames ==
    {R_Data, N_tipo_data, N_valore, N_concentrazione, R_parametro, N_cod_inquinante,
     N_nome_stazione, N_tipo_stazione, N_nome, R_Nome, N_unita, N_uom}

InKinds == {"na", "num", "txt"}

\* the dtype the reader infers for a column
InferDtype(cells) ==
    IF \A r \in DOMAIN cells : cells[r].k \in {"num", "na"} THEN "num" ELSE "obj"

\* the frame with labels s, n rows and cells of the kinds given; every
\* present cell carries its own position, so its origin stays visible
MakeFrame(s, n, kinds) ==
    [cols |-> [j \in 1..Len(s) |->
        LET cells == [r \in 1..n |->
                IF kinds[j][r] = "na" THEN NA ELSE [k |-> kinds[j][r], v |-> 10 * j + r]]
        IN  [name |-> s[j], dtype |-> InferDtype(cells), cells |-> cells]],
     n |-> n, err |-> FALSE]

Injective(s) == \A i, j \in DOMAIN s : i # j => s[i] # s[j]

LoadIdle ==
    /\ fail2 = "no"
    /\ fail1 = "no"
    /\ meas2 = EmptyFrame
    /\ meas1 = EmptyFrame
    /\ measures = EmptyFrame
    /\ stations = EmptyFrame
    /\ joined = EmptyFrame
    /\ ret = EmptyFrame

NoFile == [exists |-> FALSE, data |-> EmptyFrame]

ReadIdle ==
    /\ jfile = "none"
    /\ jenv = [direct |-> FALSE, records |-> FALSE, load |-> FALSE, normalize |-> FALSE, frame |-> FALSE]
    /\ tried = <<>>
    /\ jres = "none"

NoDisk == [tmp |-> {}, csv |-> NoFile, stcsv |-> NoFile, db |-> [exists |-> FALSE, tables |-> {}]]

NoLocals ==
    [df1 |-> EmptyFrame, df2 |-> EmptyFrame, stations_raw |-> EmptyFrame, m1 |-> EmptyFrame,
     m2 |-> EmptyFrame, all_measures |-> EmptyFrame, stations_norm |-> EmptyFrame]

BuildIdle ==
    /\ disk = NoDisk
    /\ disk0 = NoDisk
    /\ created = {}
    /\ tmp_files = <<>>
    /\ exc = FALSE
    /\ loc = NoLocals

NormIdle ==
    /\ raw = EmptyFrame
    /\ fDf = EmptyFrame
    /\ dDf = EmptyFrame
    /\ fOut = EmptyFrame
    /\ dOut = EmptyFrame

\* The input is any one-row frame of at most MaxCols columns with distinct
\* labels drawn from RawNames (conversions and the row filter act on each row
\* by itself).
InitNorm ==
    /\ prog = "normalize"
    /\ pc = "start"
    /\ \E k \in 0..MaxCols : \E s \in [1..k -> RawNames] :
         /\ Injective(s)
         /\ \E kinds \in [1..k -> [1..1 -> InKinds]] : raw = MakeFrame(s, 1, kinds)
    /\ fDf = EmptyFrame
    /\ dDf = EmptyFrame
    /\ fOut = EmptyFrame
    /\ dOut = EmptyFrame
    /\ LoadIdle
    /\ ReadIdle
    /\ BuildIdle

Normalize ==
    /\ prog = "normalize"
    /\ pc = "start"
    /\ pc' = "done"
    /\ fDf' = FAssigned(raw)
    /\ dDf' = DAssigned(raw)
    /\ fOut' = FFinish(fDf')
    /\ dOut' = DFinish(dDf')
    /\ UNCHANGED <<prog, raw, loadVars, readVars, buildVars>>

NextNorm == Normalize

SpecNorm == InitNorm /\ [][NextNorm]_vars

(***************************************************************************)
(* Claims about the normalizers                                            *)
(***************************************************************************)
\* the cells of the first column labelled c
ColCells(df, c) == df.cols[CHOOSE j \in Idx(df, c) : \A i \in Idx(df, c) : j <= i].cells

\* the lowercased form of every input label
Lowered == [c \in RawNames |-> LowerName(c)]

\* the positions of the input columns whose lowercased label satisfies P
MatchPos(P(_), df) == {j \in 1..Len(df.cols) : P(Lowered[df.cols[j].name])}

\* the position, in the input's column order, of the first column whose
\* lowercased label satisfies P
FirstMatchPos(P(_), df) ==
    LET hit == MatchPos(P, df) IN CHOOSE j \in hit : \A i \in hit : j <= i

AnyMatch(P(_), df) == MatchPos(P, df) # {}

\* the role's column of the assigned frame holds the converted cells of the
\* first matching input column
RoleFromFirst(P(_), Conv(_), target, asg) ==
    (AnyMatch(P, raw) /\ ~asg.err) =>
        /\ Has(asg, target)
        /\ ColCells(asg, target) =
              [r \in 1..raw.n |-> Conv(raw.cols[FirstMatchPos(P, raw)].cells[r])]

Same(c) == c

\* C1: the fetcher's normalize_measurements returns, for every input frame,
\* a frame whose columns are exactly the eleven canonical ones, in order.
C1_CanonicalColumns ==
    pc = "done" => (~fOut.err /\ Names(fOut) = FCanonical)

SelectedCell(P(_), r) ==
    IF AnyMatch(P, raw) THEN raw.cols[FirstMatchPos(P, raw)].cells[r] ELSE NA

\* C9: a source row whose selected value, pollutant or station-id cell is
\* missing (or for which no such column was found) does not appear in the
\* fetcher's output.
C9_MissingRowsDropped ==
    (prog = "normalize" /\ pc = "done" /\ ~fOut.err) =>
        \A r \in 1..raw.n :
            (\/ IsNA(SelectedCell(FIsPollutant, r))
             \/ IsNA(SelectedCell(FIsStation, r))
             \/ (AnyMatch(FIsValue, raw) /\ IsNA(SelectedCell(FIsValue, r))))
            => fOut.n = 0

\* an input row with present value and station id and a missing pollutant
\* cell has been normalized
C9_Witness ==
    /\ prog = "normalize" /\ pc = "done" /\ ~fOut.err
    /\ AnyMatch(FIsPollutant, raw) /\ IsNA(SelectedCell(FIsPollutant, 1))
    /\ AnyMatch(FIsStation, raw) /\ ~IsNA(SelectedCell(FIsStation, 1))

(***************************************************************************)
(* Dashboard: normalize_stations and load_and_prepare (src/app.py)         *)
(***************************************************************************)
\* df.rename(columns={old: new})
Rename(df, old, new) ==
    [df EXCEPT !.cols = [j \in 1..Len(df.cols) |->
        [name |-> IF df.cols[j].name = old THEN new ELSE df.cols[j].name,
         dtype |-> df.cols[j].dtype, cells |-> df.cols[j].cells]]]

\* the station columns without the latitude
DStationColumnsNoLat == <<N_station_id, N_station_name, N_lon, N_station_type>>
DStationColumns == <<N_station_id, N_station_name, N_lat, N_lon, N_station_type>>

\* normalize_stations of the dashboard
DNormalizeStations(df) ==
    LET low == LowerColumns(df)
        d1 == IF Has(low, N_id) /\ ~Has(low, N_station_id)
              THEN Rename(low, N_id, N_station_id) ELSE low
        d2 == IF Has(d1, N_nome) /\ ~Has(d1, N_station_name)
              THEN Rename(d1, N_nome, N_station_name) ELSE d1
    IN  Project(EnsureColumns(d2, DStationColumns), DStationColumns)

\* DataFrame.empty
IsEmpty(df) == df.n = 0 \/ Len(df.cols) = 0

\* the column labelled c (labels are unique in the frames combined below)
ColOf(df, c) == df.cols[CHOOSE j \in Idx(df, c) : TRUE]

NAs(n) == [r \in 1..n |-> NA]

\* pd.concat([a, b], ignore_index=True, sort=False)
\* the second frame's rows before the first frame's
ConcatReversed(a, b) ==
    LET labels == Names(a) \o SelectSeq(Names(b), LAMBDA c : ~Has(a, c))
    IN  [cols |-> [j \in 1..Len(labels) |->
            LET c == labels[j]
            IN  [name |-> c,
                 dtype |-> IF ~Has(b, c) THEN ColOf(a, c).dtype
                           ELSE IF ~Has(a, c) THEN ColOf(b, c).dtype
                           ELSE IF ColOf(a, c).dtype = ColOf(b, c).dtype
                                THEN ColOf(a, c).dtype ELSE "obj",
                 cells |-> (IF Has(b, c) THEN ColOf(b, c).cells ELSE NAs(b.n))
                           \o (IF Has(a, c) THEN ColOf(a, c).cells ELSE NAs(a.n))]],
         n |-> a.n + b.n, err |-> FALSE]
Concat(a, b) ==
    LET labels == Names(a) \o SelectSeq(Names(b), LAMBDA c : ~Has(a, c))
    IN  [cols |-> [j \in 1..Len(labels) |->
            LET c == labels[j]
            IN  [name |-> c,
                 dtype |-> IF ~Has(b, c) THEN ColOf(a, c).dtype
                           ELSE IF ~Has(a, c) THEN ColOf(b, c).dtype
                           ELSE IF ColOf(a, c).dtype = ColOf(b, c).dtype
                                THEN ColOf(a, c).dtype ELSE "obj",
                 cells |-> (IF Has(a, c) THEN ColOf(a, c).cells ELSE NAs(a.n))
                           \o (IF Has(b, c) THEN ColOf(b, c).cells ELSE NAs(b.n))]],
         n |-> a.n + b.n, err |-> FALSE]

\* the right rows whose key equals the key of left row i (missing keys match
\* each other, as in pandas), in the right frame's order
Matches(left, right, key, i) ==
    Ordered({j \in 1..right.n : ColOf(right, key).cells[j] = ColOf(left, key).cells[i]})

\* an inner join: a left row without a match gives no pair
InnerPairs(m, i) == [k \in 1..Len(m) |-> <<i, m[k]>>]
\* how="left": the pairs of left row i with its matches m; a left row without
\* a match is kept once, paired with right row 0, which stands for no match
LeftPairs(m, i) == IF m = <<>> THEN <<<<i, 0>>>> ELSE [k \in 1..Len(m) |-> <<i, m[k]>>]

RECURSIVE JoinPairs(_, _, _, _)
\* the (left row, right row) pairs of the join from left row i on
JoinPairs(left, right, key, i) ==
    IF i > left.n THEN <<>>
    ELSE LeftPairs(Matches(left, right, key, i), i) \o JoinPairs(left, right, key, i + 1)

HoldsText(col) == \E r \in DOMAIN col.cells : col.cells[r].k \in {"txt", "nstr", "nanstr", "dstr"}

\* merge refuses to join a text key with a numeric key
MergeMustRaise(left, right, key) ==
    /\ left.n > 0 /\ right.n > 0
    /\ \/ ColOf(left, key).dtype = "obj" /\ HoldsText(ColOf(left, key)) /\ ColOf(right, key).dtype = "num"
       \/ ColOf(right, key).dtype = "obj" /\ HoldsText(ColOf(right, key)) /\ ColOf(left, key).dtype = "num"

\* an object key without any text against a numeric key: the outcome of the
\* dtype check depends on the inferred type of the object column
MergeMayRaise(left, right, key) ==
    /\ left.n > 0 /\ right.n > 0
    /\ {ColOf(left, key).dtype, ColOf(right, key).dtype} = {"obj", "num"}

\* left.merge(right, on=key, how="left"), when the dtype check passes
Merge(left, right, key) ==
    LET pairs == JoinPairs(left, right, key, 1)
        overlap == {c \in {left.cols[j].name : j \in 1..Len(left.cols)} :
                        Has(right, c) /\ c # key}
        rightRest == SelectSeq(right.cols, LAMBDA col : col.name # key)
    IN  [cols |->
            [j \in 1..Len(left.cols) |->
                [name |-> IF left.cols[j].name \in overlap
                          THEN left.cols[j].name \o <<"_", "x">> ELSE left.cols[j].name,
                 dtype |-> left.cols[j].dtype,
                 cells |-> [p \in 1..Len(pairs) |-> left.cols[j].cells[pairs[p][1]]]]]
            \o
            [j \in 1..Len(rightRest) |->
                [name |-> IF rightRest[j].name \in overlap
                          THEN rightRest[j].name \o <<"_", "y">> ELSE rightRest[j].name,
                 dtype |-> rightRest[j].dtype,
                 cells |-> [p \in 1..Len(pairs) |->
                            IF pairs[p][2] = 0 THEN NA ELSE rightRest[j].cells[pairs[p][2]]]]],
         n |-> Len(pairs), err |-> FALSE]

\* the final cleanup: indexing a missing column raises KeyError
DFinal(df) ==
    IF ~Has(df, N_year) \/ ~Has(df, N_value) \/ ~Has(df, N_pollutant) THEN Raised
    ELSE DropNA(SetItem(SetItem(df, N_year, MapVal(ToNumeric, "num", GetItem(df, N_year))),
                        N_value, MapVal(ToNumeric, "num", GetItem(df, N_value))),
                {N_value, N_pollutant})

\* Layouts of a measurement dataset, and the cells a column may hold; tag
\* tells the two datasets' values apart
MeasureShapes ==
    {<<N_stazione, R_parametro, N_valore>>, <<N_id, N_nome, N_valore>>,
     <<R_parametro, N_valore>>, <<N_valore>>}

MeasureCells(label, tag, r) ==
    CASE label = N_stazione -> {Txt(1), Txt(2)}
      [] label = N_id -> {Num(1), Num(2)}
      [] label = N_valore -> {Num(10 * tag + r), NA}
      [] OTHER -> {Txt(7)}

\* the columns of n rows a label may hold
MeasureColumns(label, tag, n) ==
    {c \in [1..n -> {Txt(1), Txt(2), Txt(7), Num(1), Num(2), NA} \cup {Num(10 * tag + r) : r \in 1..n}] :
        \A r \in 1..n : c[r] \in MeasureCells(label, tag, r)}

MeasureFrames(tag) ==
    UNION {UNION {
        {[cols |-> [j \in 1..Len(s) |->
                    [name |-> s[j], dtype |-> InferDtype(pick[j]), cells |-> pick[j]]],
          n |-> n, err |-> FALSE] :
            pick \in {f \in [1..Len(s) -> UNION {MeasureColumns(s[j], tag, n) : j \in 1..Len(s)}] :
                        \A j \in 1..Len(s) : f[j] \in MeasureColumns(s[j], tag, n)}}
        : n \in 1..MaxLoadRows} : s \in MeasureShapes}

\* what MEASURES_JSON_2 and MEASURES_JSON_1 may hold
DailyFrames == MeasureFrames(2)
HistoricalFrames == MeasureFrames(1)

StationShapes == {<<N_id, N_lat>>, <<N_nome, N_lat>>}

StationCells(label, r) ==
    CASE label = N_id -> {Txt(1), Num(1)}
      [] label = N_lat -> {Num(40 + r)}
      [] OTHER -> {Txt(8)}

StationColumns(label, n) ==
    {c \in [1..n -> {Txt(1), Num(1), Txt(8)} \cup {Num(40 + r) : r \in 1..n}] :
        \A r \in 1..n : c[r] \in StationCells(label, r)}

\* what STATIONS_CSV may hold
StationFrames ==
    UNION {UNION {
        {[cols |-> [j \in 1..Len(s) |->
                    [name |-> s[j], dtype |-> InferDtype(pick[j]), cells |-> pick[j]]],
          n |-> n, err |-> FALSE] :
            pick \in {f \in [1..Len(s) -> UNION {StationColumns(s[j], n) : j \in 1..Len(s)}] :
                        \A j \in 1..Len(s) : f[j] \in StationColumns(s[j], n)}}
        : n \in 0..MaxStations} : s \in StationShapes}

InitLoad ==
    /\ prog = "load"
    /\ pc = "start"
    /\ NormIdle
    /\ LoadIdle
    /\ ReadIdle
    /\ BuildIdle

\* lines 111-115: read and normalize the daily dataset, or fall back
ReadDaily ==
    /\ prog = "load" /\ pc = "start"
    /\ \/ /\ fail2' = "read" /\ meas2' = EmptyFrame
       \/ \E m2 \in DailyFrames :
            IF DNormalize(m2).err
            THEN fail2' = "normalize" /\ meas2' = EmptyFrame
            ELSE fail2' = "no" /\ meas2' = DNormalize(m2)
    /\ pc' = "daily"
    /\ UNCHANGED <<prog, normVars, readVars, buildVars, fail1, meas1, measures, stations, joined, ret>>

\* lines 118-122: read and normalize the historical dataset, or fall back
ReadHistorical ==
    /\ prog = "load" /\ pc = "daily"
    /\ \/ /\ fail1' = "read" /\ meas1' = EmptyFrame
       \/ \E m1 \in HistoricalFrames :
            IF DNormalize(m1).err
            THEN fail1' = "normalize" /\ meas1' = EmptyFrame
            ELSE fail1' = "no" /\ meas1' = DNormalize(m1)
    /\ pc' = "historical"
    /\ UNCHANGED <<prog, normVars, readVars, buildVars, fail2, meas2, measures, stations, joined, ret>>

\* lines 125-128
Combine ==
    /\ prog = "load" /\ pc = "historical"
    /\ measures' = IF ~IsEmpty(meas2) THEN Concat(meas2, meas1) ELSE meas1
    /\ pc' = "combined"
    /\ UNCHANGED <<prog, normVars, readVars, buildVars, fail2, fail1, meas2, meas1, stations, joined, ret>>

\* lines 131-132; a failure to read the station CSV is not caught
ReadStations ==
    /\ prog = "load" /\ pc = "combined"
    /\ \/ /\ pc' = "raised_stations" /\ UNCHANGED stations
       \/ \E st \in StationFrames :
            /\ stations' = DNormalizeStations(st)
            /\ pc' = "stations"
    /\ UNCHANGED <<prog, normVars, readVars, buildVars, fail2, fail1, meas2, meas1, measures, joined, ret>>

\* lines 135-138
MergeStep ==
    /\ prog = "load" /\ pc = "stations"
    /\ IF Has(measures, N_station_id) /\ ~IsEmpty(stations)
       THEN \/ /\ ~MergeMustRaise(measures, stations, N_station_id)
               /\ joined' = Merge(measures, stations, N_station_id)
               /\ pc' = "merged"
            \/ /\ MergeMustRaise(measures, stations, N_station_id)
                    \/ MergeMayRaise(measures, stations, N_station_id)
               /\ pc' = "raised_merge"
               /\ UNCHANGED joined
       ELSE joined' = measures /\ pc' = "skipped"
    /\ UNCHANGED <<prog, normVars, readVars, buildVars, fail2, fail1, meas2, meas1, measures, stations, ret>>

\* lines 141-144
Finish ==
    /\ prog = "load" /\ pc \in {"merged", "skipped"}
    /\ IF DFinal(joined).err
       THEN pc' = "raised_final" /\ UNCHANGED ret
       ELSE pc' = "returned" /\ ret' = DFinal(joined)
    /\ UNCHANGED <<prog, normVars, readVars, buildVars, fail2, fail1, meas2, meas1, measures, stations, joined>>

NextLoad == ReadDaily \/ ReadHistorical \/ Combine \/ ReadStations \/ MergeStep \/ Finish

SpecLoad == InitLoad /\ [][NextLoad]_vars

(***************************************************************************)
(* Claims about load_and_prepare                                           *)
(***************************************************************************)
\* row i of df over its first k columns
RowAt(df, i, k) == [j \in 1..k |-> df.cols[j].cells[i]]

\* the rows of joined that stem from row i of measures
RowsOf(i) ==
    {p \in 1..joined.n : RowAt(joined, p, Len(measures.cols)) = RowAt(measures, i, Len(measures.cols))}

Metadata == <<N_lat, N_lon, N_station_type>>

\* the metadata of station row k, and of row p of joined
StationMeta(k) == [m \in 1..Len(Metadata) |-> ColCells(stations, Metadata[m])[k]]
JoinedMeta(p) == [m \in 1..Len(Metadata) |-> ColCells(joined, Metadata[m])[p]]

StationsMatching(i) ==
    {k \in 1..stations.n :
        ColCells(stations, N_station_id)[k] = ColCells(measures, N_station_id)[i]}

MergePerformed == Has(measures, N_station_id) /\ ~IsEmpty(stations)

\* C4 as stated: the frame returned by load_and_prepare has, on every
\* returning path, the columns date, station_id, pollutant, value, unit, lat
\* and lon.
C4_CanonicalSchema ==
    (prog = "load" /\ pc = "returned") =>
        \A c \in {N_date, N_station_id, N_pollutant, N_value, N_unit, N_lat, N_lon} : Has(ret, c)

\* C4 as amended: the returned frame has the columns date, station_id,
\* pollutant and value on every returning path, lat and lon exactly when the
\* merge was performed, and never a unit column.
C4_ReturnedColumns ==
    (prog = "load" /\ pc = "returned") =>
        /\ \A c \in {N_date, N_station_id, N_pollutant, N_value} : Has(ret, c)
        /\ \A c \in {N_lat, N_lon} : Has(ret, c) <=> MergePerformed
        /\ ~Has(ret, N_unit)

\* load_and_prepare returned rows, after a merge and with one dataset failed
C4_Witness ==
    /\ prog = "load" /\ pc = "returned"
    /\ MergePerformed
    /\ fail2 # "no" /\ fail1 = "no"
    /\ ret.n > 0
    /\ Has(ret, N_lat) /\ Has(ret, N_date)

\* C5: a failure while reading or normalizing a measurement dataset never
\* makes load_and_prepare raise, whichever of the two datasets fail.
C5_FailuresNeverPropagate ==
    (prog = "load" /\ (fail2 # "no" \/ fail1 # "no")) => pc # "raised_final"

\* both datasets failed, the station CSV was read, and the call has ended
C5_Witness ==
    /\ prog = "load"
    /\ fail2 # "no" /\ fail1 # "no"
    /\ pc \in {"returned", "raised_final"}

Combined == pc \in {"combined", "stations", "merged", "skipped", "returned",
                    "raised_stations", "raised_merge", "raised_final"}

\* C10: a non-empty normalized daily dataset gives its rows followed by the
\* rows of the historical dataset; an empty or failed one gives exactly the
\* historical dataset; and every row of the measurements is still there
\* before the final filter.
C10_DailyThenHistorical ==
    (prog = "load" /\ Combined) =>
        /\ ~IsEmpty(meas2) =>
            /\ measures.n = meas2.n + meas1.n
            /\ \A j \in 1..Len(DWanted) :
                /\ Cardinality(Idx(measures, DWanted[j])) = 1
                /\ ColCells(measures, DWanted[j]) =
                      ColCells(meas2, DWanted[j])
                      \o (IF Has(meas1, DWanted[j]) THEN ColCells(meas1, DWanted[j]) ELSE NAs(meas1.n))
        /\ IsEmpty(meas2) => measures = meas1
        /\ pc \in {"merged", "skipped"} => \A i \in 1..measures.n : RowsOf(i) # {}

\* both datasets gave rows and the measurements went through the merge
C10_Witness ==
    /\ prog = "load" /\ pc = "merged"
    /\ fail2 = "no" /\ fail1 = "no"
    /\ meas2.n > 0 /\ meas1.n > 0
    /\ ColCells(measures, N_value)[1] = ColCells(meas2, N_value)[1]
    /\ ColCells(measures, N_value)[meas2.n + 1] = ColCells(meas1, N_value)[1]

(***************************************************************************)
(* Fetcher: read_json_flexible (data/fetch_official_db.py)                 *)
(***************************************************************************)
\* jfile says what json.load would give: a list, an object, a scalar, or
\* nothing (the file is not JSON); jenv says which call succeeds on the file.
\* No parser succeeds on a file that is not JSON.
InitRead ==
    /\ prog = "read"
    /\ pc = "start"
    /\ jfile \in {"list", "object", "scalar", "invalid"}
    /\ jenv \in [direct : BOOLEAN, records : BOOLEAN, load : BOOLEAN,
                 normalize : BOOLEAN, frame : BOOLEAN]
    /\ jfile = "invalid" =>
          ~jenv.direct /\ ~jenv.records /\ ~jenv.load /\ ~jenv.normalize /\ ~jenv.frame
    /\ tried = <<>>
    /\ jres = "none"
    /\ NormIdle
    /\ LoadIdle
    /\ BuildIdle

\* line 60: pd.read_json(path_or_file)
TryDirect ==
    /\ prog = "read" /\ pc = "start"
    /\ tried' = Append(tried, "direct")
    /\ IF jenv.direct
       THEN jres' = "direct" /\ pc' = "returned"
       ELSE jres' = jres /\ pc' = "direct_failed"
    /\ UNCHANGED <<prog, jfile, jenv, normVars, loadVars, buildVars>>

\* line 63: pd.read_json(path_or_file, orient="records")
TryRecords ==
    /\ prog = "read" /\ pc = "direct_failed"
    /\ tried' = Append(tried, "records")
    /\ IF jenv.records
       THEN jres' = "records" /\ pc' = "returned"
       ELSE jres' = jres /\ pc' = "records_failed"
    /\ UNCHANGED <<prog, jfile, jenv, normVars, loadVars, buildVars>>

\* lines 65-66: open and json.load; a failure here is not caught
LoadJson ==
    /\ prog = "read" /\ pc = "records_failed"
    /\ tried' = Append(tried, "load")
    /\ pc' = IF jenv.load THEN "loaded" ELSE "raised"
    /\ UNCHANGED <<prog, jfile, jenv, jres, normVars, loadVars, buildVars>>

\* line 71: isinstance(j, list)
\* no attempt after json_normalize
NoListFallback == FALSE
ListFallbackApplies == jfile = "list"

\* lines 67-73: pd.json_normalize(j); on failure go on only for a list
TryNormalize ==
    /\ prog = "read" /\ pc = "loaded"
    /\ tried' = Append(tried, "normalize")
    /\ IF jenv.normalize
       THEN jres' = "normalize" /\ pc' = "returned"
       ELSE /\ jres' = jres
            /\ pc' = IF ListFallbackApplies THEN "normalize_failed" ELSE "raised"
    /\ UNCHANGED <<prog, jfile, jenv, normVars, loadVars, buildVars>>

\* line 72: pd.DataFrame(j)
TryFrame ==
    /\ prog = "read" /\ pc = "normalize_failed"
    /\ tried' = Append(tried, "frame")
    /\ IF jenv.frame
       THEN jres' = "frame" /\ pc' = "returned"
       ELSE jres' = jres /\ pc' = "raised"
    /\ UNCHANGED <<prog, jfile, jenv, normVars, loadVars, buildVars>>

NextRead == TryDirect \/ TryRecords \/ LoadJson \/ TryNormalize \/ TryFrame

SpecRead == InitRead /\ [][NextRead]_vars

StrategyOrder == <<"direct", "records", "load", "normalize", "frame">>

\* whether a step succeeds on the file; loading returns no frame by itself
StepSucceeds(step) ==
    CASE step = "direct" -> jenv.direct
      [] step = "records" -> jenv.records
      [] step = "load" -> jenv.load
      [] step = "normalize" -> jenv.normalize
      [] step = "frame" -> jenv.frame

\* the manual strategy: load, then json_normalize, then for a list the
\* list-to-frame attempt
ManualSucceeds ==
    jenv.load /\ (jenv.normalize \/ (jfile = "list" /\ jenv.frame))

FStationCanonical ==
    <<N_station_id, N_station_name, N_id_arpa, N_inizio_operativita, N_fine_operativita,
      N_inquinanti, N_lon, N_lat, N_location>>

\* if old in df.columns and new not in df.columns: df = df.rename(...)
RenameIfFree(df, old, new) ==
    IF Has(df, old) /\ ~Has(df, new) THEN Rename(df, old, new) ELSE df

\* normalize_stations of the fetcher
FNormalizeStations(df) ==
    Project(EnsureColumns(
        RenameIfFree(RenameIfFree(RenameIfFree(RenameIfFree(LowerColumns(df),
            N_id, N_station_id), N_nome, N_station_name), N_lat_y_4326, N_lat),
            N_long_x_4326, N_lon),
        FStationCanonical), FStationCanonical)

\* lines 213-215: concat, then datetime and date once more
AllMeasures(m1, m2) ==
    LET c == Concat(m1, m2)
        c1 == SetItem(c, N_datetime, MapVal(ToDatetime, "dt", GetItem(c, N_datetime)))
    IN  SetItem(c1, N_date, MapVal(AsStr, "obj", GetItem(c1, N_date)))

\* What the two measurement downloads may parse to: a dataset with value,
\* pollutant and station, one with a value only, and one whose labels
\* differ only by case.
BuildMeasureFrames ==
    {MakeFrame(<<N_valore, R_parametro, N_stazione>>, 1, <<<<"num">>, <<"txt">>, <<"txt">>>>),
     MakeFrame(<<N_valore>>, 1, <<<<"num">>>>),
     MakeFrame(<<R_QC_FLAG, N_qc_flag>>, 1, <<<<"num">>, <<"num">>>>)}

BuildStationFrames ==
    {MakeFrame(<<N_id, N_nome>>, 1, <<<<"num">>, <<"txt">>>>),
     MakeFrame(<<N_nome>>, 1, <<<<"txt">>>>)}

\* files left by an earlier run
OldFrame == MakeFrame(<<N_location>>, 1, <<<<"txt">>>>)
OldFile == [exists |-> TRUE, data |-> OldFrame]
\* a file opened for writing whose write did not complete
PartialFile == [exists |-> TRUE, data |-> EmptyFrame]

OldDatabases ==
    {[exists |-> FALSE, tables |-> {}],
     [exists |-> TRUE, tables |-> {<<"legacy", OldFrame>>}],
     [exists |-> TRUE, tables |-> {<<"measurements", OldFrame>>, <<"stations", OldFrame>>}]}

InitBuild ==
    /\ prog = "build"
    /\ pc = "dl1"
    /\ \E old \in {NoFile, OldFile} : \E db \in OldDatabases :
          disk = [tmp |-> {}, csv |-> old, stcsv |-> old, db |-> db]
    /\ disk0 = disk
    /\ created = {}
    /\ tmp_files = <<>>
    /\ exc = FALSE
    /\ loc = NoLocals
    /\ NormIdle
    /\ LoadIdle
    /\ ReadIdle

\* the name tempfile gives the file of the download at pc
TempName == CASE pc = "dl1" -> "tmp1" [] pc = "dl2" -> "tmp2" [] pc = "dl3" -> "tmp3"

AfterDownload == CASE pc = "dl1" -> "dl2" [] pc = "dl2" -> "dl3" [] pc = "dl3" -> "read1"

\* lines 192-197 with download_to_temp (lines 42-52): the request may fail
\* before the temporary file exists, the streaming may fail after it was
\* created, or the name is returned and appended to tmp_files
Download ==
    /\ prog = "build" /\ pc \in {"dl1", "dl2", "dl3"}
    /\ \/ /\ pc' = "finally" /\ exc' = TRUE
          /\ UNCHANGED <<disk, created, tmp_files>>
       \/ /\ disk' = [disk EXCEPT !.tmp = @ \cup {TempName}]
          /\ created' = created \cup {TempName}
          /\ pc' = "finally" /\ exc' = TRUE
          /\ UNCHANGED tmp_files
       \/ /\ disk' = [disk EXCEPT !.tmp = @ \cup {TempName}]
          /\ created' = created \cup {TempName}
          /\ tmp_files' = Append(tmp_files, TempName)
          /\ pc' = AfterDownload
          /\ UNCHANGED exc
    /\ UNCHANGED <<prog, disk0, loc, normVars, loadVars, readVars>>

\* lines 200-202: each read may raise
ReadFiles ==
    /\ prog = "build" /\ pc \in {"read1", "read2", "read3"}
    /\ \/ /\ pc' = "finally" /\ exc' = TRUE /\ UNCHANGED loc
       \/ /\ pc = "read1" /\ pc' = "read2" /\ UNCHANGED exc
          /\ \E f \in BuildMeasureFrames : loc' = [loc EXCEPT !.df1 = f]
       \/ /\ pc = "read2" /\ pc' = "read3" /\ UNCHANGED exc
          /\ \E f \in BuildMeasureFrames : loc' = [loc EXCEPT !.df2 = f]
       \/ /\ pc = "read3" /\ pc' = "norm1" /\ UNCHANGED exc
          /\ \E f \in BuildStationFrames : loc' = [loc EXCEPT !.stations_raw = f]
    /\ UNCHANGED <<prog, disk, disk0, created, tmp_files, normVars, loadVars, readVars>>

\* each normalized dataset is written to the measurements CSV at once
NormalizeAndWrite ==
    /\ prog = "build" /\ pc \in {"norm1", "norm2"}
    /\ LET df == IF pc = "norm1" THEN loc.df1 ELSE loc.df2
       IN  IF FNormalize(df).err
           THEN pc' = "finally" /\ exc' = TRUE /\ UNCHANGED <<loc, disk>>
           ELSE /\ UNCHANGED exc
                /\ disk' = [disk EXCEPT !.csv = [exists |-> TRUE, data |-> FNormalize(df)]]
                /\ IF pc = "norm1"
                   THEN pc' = "norm2" /\ loc' = [loc EXCEPT !.m1 = FNormalize(df)]
                   ELSE pc' = "concat" /\ loc' = [loc EXCEPT !.m2 = FNormalize(df)]
    /\ UNCHANGED <<prog, disk0, created, tmp_files, normVars, loadVars, readVars>>

\* lines 205 and 209
NormalizeMeasures ==
    /\ prog = "build" /\ pc \in {"norm1", "norm2"}
    /\ LET df == IF pc = "norm1" THEN loc.df1 ELSE loc.df2
       IN  IF FNormalize(df).err
           THEN pc' = "finally" /\ exc' = TRUE /\ UNCHANGED loc
           ELSE /\ UNCHANGED exc
                /\ IF pc = "norm1"
                   THEN pc' = "norm2" /\ loc' = [loc EXCEPT !.m1 = FNormalize(df)]
                   ELSE pc' = "concat" /\ loc' = [loc EXCEPT !.m2 = FNormalize(df)]
    /\ UNCHANGED <<prog, disk, disk0, created, tmp_files, normVars, loadVars, readVars>>

\* lines 213-218
ConcatAndStations ==
    /\ prog = "build" /\ pc = "concat"
    /\ loc' = [loc EXCEPT !.all_measures = AllMeasures(loc.m1, loc.m2),
                          !.stations_norm = FNormalizeStations(loc.stations_raw)]
    /\ pc' = "csv1"
    /\ UNCHANGED <<prog, disk, disk0, created, tmp_files, exc, normVars, loadVars, readVars>>

\* lines 221-222: a write may fail before or after the file was truncated
WriteCsv ==
    /\ prog = "build" /\ pc \in {"csv1", "csv2"}
    /\ \/ /\ pc' = "finally" /\ exc' = TRUE /\ UNCHANGED disk
       \/ /\ pc' = "finally" /\ exc' = TRUE
          /\ disk' = IF pc = "csv1" THEN [disk EXCEPT !.csv = PartialFile]
                     ELSE [disk EXCEPT !.stcsv = PartialFile]
       \/ /\ UNCHANGED exc
          /\ IF pc = "csv1"
             THEN /\ pc' = "csv2"
                  /\ disk' = [disk EXCEPT !.csv = [exists |-> TRUE, data |-> loc.all_measures]]
             ELSE /\ pc' = "rmdb"
                  /\ disk' = [disk EXCEPT !.stcsv = [exists |-> TRUE, data |-> loc.stations_norm]]
    /\ UNCHANGED <<prog, disk0, created, tmp_files, loc, normVars, loadVars, readVars>>

\* connect to the database without removing the one that exists
KeepOldDb ==
    /\ prog = "build" /\ pc = "rmdb"
    /\ disk' = [disk EXCEPT !.db.exists = TRUE]
    /\ pc' = "sql1"
    /\ UNCHANGED <<prog, disk0, created, tmp_files, exc, loc, normVars, loadVars, readVars>>

\* lines 226-228: remove an existing database, then connect
RemoveOldDb ==
    /\ prog = "build" /\ pc = "rmdb"
    /\ \/ /\ disk.db.exists
          /\ pc' = "finally" /\ exc' = TRUE /\ UNCHANGED disk
       \/ /\ disk' = [disk EXCEPT !.db = [exists |-> TRUE, tables |-> {}]]
          /\ pc' = "sql1" /\ UNCHANGED exc
    /\ UNCHANGED <<prog, disk0, created, tmp_files, loc, normVars, loadVars, readVars>>

TableNames(db) == {t[1] : t \in db.tables}

\* lines 229-230: to_sql refuses a table that exists (if_exists="fail")
ToSql ==
    /\ prog = "build" /\ pc \in {"sql1", "sql2"}
    /\ LET name == IF pc = "sql1" THEN "measurements" ELSE "stations"
           rows == IF pc = "sql1" THEN loc.all_measures ELSE loc.stations_norm
       IN  \/ /\ pc' = "finally" /\ exc' = TRUE /\ UNCHANGED disk
           \/ /\ name \notin TableNames(disk.db)
              /\ disk' = [disk EXCEPT !.db.tables = @ \cup {<<name, rows>>}]
              /\ pc' = IF pc = "sql1" THEN "sql2" ELSE "finally"
              /\ UNCHANGED exc
    /\ UNCHANGED <<prog, disk0, created, tmp_files, loc, normVars, loadVars, readVars>>

RECURSIVE Range(_)
Range(q) == IF q = <<>> THEN {} ELSE {Head(q)} \cup Range(Tail(q))

\* lines 235-240: remove every file of tmp_files; a removal that fails is
\* passed over
Finally ==
    /\ prog = "build" /\ pc = "finally"
    /\ \E kept \in SUBSET Range(tmp_files) :
          disk' = [disk EXCEPT !.tmp = (@ \ Range(tmp_files)) \cup kept]
    /\ pc' = IF exc THEN "raised" ELSE "returned"
    /\ UNCHANGED <<prog, disk0, created, tmp_files, exc, loc, normVars, loadVars, readVars>>

NextBuild ==
    \/ Download \/ ReadFiles \/ NormalizeMeasures \/ ConcatAndStations
    \/ WriteCsv \/ RemoveOldDb \/ ToSql \/ Finally

SpecBuild == InitBuild /\ [][NextBuild]_vars

\* C7: after build_db returns normally the two CSVs hold this run's frames
\* and the database holds exactly the tables measurements and stations with
\* the rows of the two CSVs; nothing of an earlier database survives.
C7_SnapshotMatchesCsv ==
    (prog = "build" /\ pc = "returned") =>
        /\ disk.csv = [exists |-> TRUE, data |-> loc.all_measures]
        /\ disk.stcsv = [exists |-> TRUE, data |-> loc.stations_norm]
        /\ disk.db.exists
        /\ disk.db.tables = {<<"measurements", disk.csv.data>>, <<"stations", disk.stcsv.data>>}

\* build_db returned normally with rows, over the database of an earlier run
C7_Witness ==
    /\ prog = "build" /\ pc = "returned"
    /\ disk0.db.exists /\ disk0.db.tables # {}
    /\ loc.all_measures.n > 0

\* C8: when build_db ends, returning or raising, no temporary file that
\* download_to_temp created during the run is left.
C8_TempFilesDeleted ==
    (prog = "build" /\ pc \in {"returned", "raised"}) => created \cap disk.tmp = {}

\* build_db has ended after a download created its temporary file
C8_Witness ==
    /\ prog = "build" /\ pc \in {"returned", "raised"}
    /\ created # {}

\* the three output files on a disk
Outputs(d) == <<d.csv, d.stcsv, d.db>>

\* build_db is still downloading, reading or normalizing its inputs
GatheringInputs ==
    pc \in {"dl1", "dl2", "dl3", "read1", "read2", "read3", "norm1", "norm2", "concat"}

\* an exception left the try block before the datasets were combined: a
\* download, a read or a normalization failed
InputFailed ==
    /\ pc \in {"finally", "raised"}
    /\ exc
    /\ loc.all_measures = NoLocals.all_measures

\* C11: build_db modifies none of its outputs before every input is ready:
\* while it downloads, reads and normalizes, and after any of these steps
\* has failed, the two CSVs and the database are those of the earlier run
\* (the old database is not removed).
C11_OutputsUntouchedOnInputFailure ==
    (prog = "build" /\ (GatheringInputs \/ InputFailed)) => Outputs(disk) = Outputs(disk0)

\* build_db has raised because the second dataset could not be normalized,
\* after three downloads, three reads and the first normalization, over the
\* files of an earlier run
C11_Witness ==
    /\ prog = "build" /\ pc = "raised" /\ InputFailed
    /\ loc.m1 # NoLocals.m1 /\ loc.m2 = NoLocals.m2
    /\ disk0.csv.exists /\ disk0.stcsv.exists /\ disk0.db.exists

====
